---------------------------- MODULE Spec2Model ----------------------------
(***************************************************************************)
(* Model of the serial command/telemetry engine of src/GUI.py:             *)
(*   SerialComm   - the connection wrapper (readEolLine, sendMessage,      *)
(*                  close)                                                 *)
(*   SerialWorker - the background read loop (run) and the mutex-guarded   *)
(*                  write (sendToggle)                                     *)
(*   WaterflowGUI - the preset state machine (presetRun, endPreset,        *)
(*                  sendSpecificToggle, sendInterrupt, errorExit,          *)
(*                  closeEvent, displayControl) and threading.Timer        *)
(*                                                                         *)
(* Three threads of control are modelled: the GUI thread (foreground,      *)
(* variable fpc), the QThread that executes SerialWorker.run (variable     *)
(* wpc) and one thread per threading.Timer (sequence timers).  Signals     *)
(* emitted from another thread than the GUI thread are queued connections: *)
(* they are appended to evq and handled by the GUI thread when its event   *)
(* loop runs.  Strings are sequences of one-character strings.             *)
(***************************************************************************)
EXTENDS Naturals, Integers, Sequences, FiniteSets, TLC

VARIABLES
    \* ---- WaterflowGUI (GUI thread) ----
    fpc,          \* position of the GUI thread: "idle" (event loop), "spin",
                  \* "send", "unlock" (inside sendToggle), "closing" (inside
                  \* closeEvent), "crashed" (exception left a slot)
    fgOp,         \* the slot that called sendToggle: "none", "presetRun",
                  \* "endPreset", "specific"
    message,      \* sendToggle's local variable message
    seconds,      \* presetRun's local variable seconds
    inPreset,     \* self.inPreset
    screenAccess, \* self.screenAccess (also: is cancelPresetButton enabled)
    ctlEnabled,   \* startPresetButton / sendCommandButton / enterDataButton enabled
    lockEnabled,  \* screenLock button enabled
    msgBox,       \* text of the last message box created by createMessageBox
    modal,        \* errorExit's message box is showing (nested event loop)
    closed,       \* closeEvent has run: the window is gone
    monitor,      \* serial lines printed by displayControl (monitor and log file)
    labels,       \* the five PinFormat objects behind self.dynamicLabels
    \* ---- SerialWorker ----
    pins,         \* self.pins
    program,      \* self.program
    mutex,        \* the QMutex: "free", "fg" (GUI thread), "bg" (worker)
    wpc,          \* position of run(): "while", "iferr", "read", "unlock",
                  \* "fwd", "cleanup", "done"
    error,        \* run's local variable error
    received,     \* run's local variable received (None is modelled as << >>:
                  \* the code only tests `not received`)
    line,         \* readEolLine's local bytearray
    \* ---- SerialComm / the rig ----
    isOpen,       \* self.connection.is_open
    rigLeft,      \* deliveries the rig will still make (bytes; whole lines
                  \* under TelemetrySpec)
    \* ---- threading.Timer objects and the GUI thread's posted events ----
    timers,       \* every Timer created, in creation order; self.timeout is the last
    evq,          \* queued signal deliveries to the GUI thread, FIFO
    \* ---- history (observations, never read by the modelled code) ----
    writes,       \* every connection.write(...) call, in order
    emitted,      \* every line passed to msg.emit, in order
    presets,      \* the pin string of every accepted presetRun, in order
    clicks,       \* operator actions so far
    lockToggles,  \* clicks on the screen lock button so far
    endCalls,     \* calls of endPreset so far
    errorEmits,   \* emissions of the error signal so far
    cleanupEmits, \* emissions of the cleanup signal so far
    reads,        \* every non-empty string readEolLine returned to run, in order
    lateReads,    \* calls of readEolLine made while self.program was False
    sink          \* every call of displayControl: the line it got and what
                  \* parseData made of it, in order

vars == << fpc, fgOp, message, seconds, inPreset, screenAccess, ctlEnabled,
           lockEnabled, msgBox, modal, closed, monitor, labels, pins, program, mutex, wpc, error,
           received, line, isOpen, rigLeft, timers, evq, writes, emitted,
           presets, clicks, lockToggles, endCalls, errorEmits, cleanupEmits,
           reads, lateReads, sink >>

guiVars    == << fpc, fgOp, message, seconds, inPreset, screenAccess, ctlEnabled,
                 lockEnabled, msgBox, modal, closed, monitor, labels >>
workerVars == << wpc, error, received, line >>
histVars   == << writes, emitted, presets, clicks, lockToggles, endCalls, errorEmits,
                 cleanupEmits, reads, lateReads, sink >>

----------------------------------------------------------------------------
(* Bounds of the model *)

\* operator actions (button clicks, closing the window) in one behaviour
MaxClicks == 3
\* bytes the rig delivers in one behaviour
MaxRigBytes == 2
\* clicks on the screen lock button in one behaviour
MaxLockToggles == 1

(* Program constants *)

LF == "\n"
PT_DATA_FLAG == "d"
\* a byte >= 0x80, which bytes.decode("ascii") rejects
NON_ASCII == "0x80"

TIME_ERROR  == "Time must be a number."
DUP_ERROR   == "Duplicate pin detected - please try again."
SERIAL_ERROR == "Serial exception detected! Program will now close."

(* Inputs *)

\* what the rig can put on the wire, byte by byte
RigBytes == {"a", LF, NON_ASCII}
\* the lines the rig can send (without their line feed), under TelemetrySpec
RigLines ==
    { <<"T", "o", "g", "g", "l", "e", " ", "P", "I", "N", "1", " ", "0">>,
      <<"T", "o", "g", "g", "l", "e", " ", "P", "I", "N", "1", " ", "1">>,
      <<"T", "o", "g", "g", "l", "e", " ", "P", "I", "N", "3", " ", "1">>,
      <<"3", ".", "2", ",", " ", "4", ".", "1">>,
      <<"1", "2", ".", "5", ",", " ", "1", "3", ".", "1", ",", " ", "9", ".", "9">>,
      <<"h", "e", "l", "l", "o", " ", "w", "o", "r", "l", "d">>,
      <<"T", "o", "g", "g", "l", "e", " ", "P", "I", "N", "3">> }
\* contents of the toggledPins text field
PinInputs == { <<"2", "4">>, <<"2", "2">> }
\* contents of the specificCommand text field
CommandInputs == { << >>, <<"4">>, <<"2", "2">> }
\* contents of the timeInterval text field
TimeInputs == { <<"x">>, <<"-", "1">>, <<"0">>, <<"5">> }

----------------------------------------------------------------------------
(* Pure helpers *)

Range(s) == { s[i] : i \in DOMAIN s }

\* mutant: a duplicate check that is off by one
HasDuplicateOffByOne(s) == Cardinality(Range(s)) + 1 < Len(s)

\* len(set(pins)) < len(pins)
HasDuplicate(s) == Cardinality(Range(s)) < Len(s)

Digits == {"0", "1", "2", "3", "4", "5", "6", "7", "8", "9"}
DigitVal(c) == CASE c = "0" -> 0 [] c = "1" -> 1 [] c = "2" -> 2 [] c = "3" -> 3
                 [] c = "4" -> 4 [] c = "5" -> 5 [] c = "6" -> 6 [] c = "7" -> 7
                 [] c = "8" -> 8 [] c = "9" -> 9

RECURSIVE DigitsVal(_)
DigitsVal(s) == IF s = << >> THEN 0
                ELSE 10 * DigitsVal(SubSeq(s, 1, Len(s) - 1)) + DigitVal(s[Len(s)])

\* float(text) on the texts of TimeInputs: an optional sign followed by one or
\* more decimal digits is a number, anything else raises ValueError.
FloatOk(t) ==
    LET body == IF t # << >> /\ t[1] \in {"-", "+"} THEN Tail(t) ELSE t
    IN  body # << >> /\ \A i \in DOMAIN body : body[i] \in Digits

FloatVal(t) ==
    IF t[1] = "-" THEN 0 - DigitsVal(Tail(t))
    ELSE IF t[1] = "+" THEN DigitsVal(Tail(t))
    ELSE DigitsVal(t)

\* bytes.decode("ascii") succeeds
AsciiOk(s) == \A i \in DOMAIN s : s[i] # NON_ASCII

\* mutant: setPins that does not assign
SetPinsForgets(newPins) == pins

\* mutant: setPins without the data flag
SetPinsNoFlag(newPins) == newPins

\* SerialWorker.setPins
SetPins(newPins) == newPins \o <<PT_DATA_FLAG>>

\* the message sendToggle builds from its argument (None is passed as << >>:
\* the code tests `if pins`)
ToggleMessage(arg, stored) ==
    IF arg # << >> THEN arg \o <<LF>> ELSE stored \o <<LF>>


(* Telemetry parsing: parseData, updateDisplay, strFormat *)

VALVE_TAG    == <<"T", "o", "g", "g", "l", "e", " ", "P", "I", "N">>
VALVE_SEP    == <<" ">>
PRESSURE_SEP == <<",", " ">>
PIN          == <<"P", "I", "N">>
PRESSURE     == <<"P", "R", "E", "S", "S">>
Whitespace   == {" ", LF, "\t", "\r"}

\* sub in s
Contains(s, sub) ==
    \E i \in 0..(Len(s) - Len(sub)) : SubSeq(s, i + 1, i + Len(sub)) = sub

\* first index at which sub occurs in s, 0 when it does not
Find(s, sub) ==
    IF Contains(s, sub)
    THEN CHOOSE i \in 1..(Len(s) - Len(sub) + 1) :
            /\ SubSeq(s, i, i + Len(sub) - 1) = sub
            /\ \A j \in 1..(i - 1) : SubSeq(s, j, j + Len(sub) - 1) # sub
    ELSE 0

\* str.strip(chars): drops leading and trailing characters that are in chars
RECURSIVE LStrip(_, _)
LStrip(s, chars) ==
    IF s # << >> /\ s[1] \in chars THEN LStrip(Tail(s), chars) ELSE s
RECURSIVE RStrip(_, _)
RStrip(s, chars) ==
    IF s # << >> /\ s[Len(s)] \in chars
    THEN RStrip(SubSeq(s, 1, Len(s) - 1), chars) ELSE s
Strip(s, chars) == RStrip(LStrip(s, chars), chars)

\* str.split(sep) with a non-empty separator
RECURSIVE Split(_, _)
Split(s, sep) ==
    LET i == Find(s, sep)
    IN  IF i = 0 THEN << s >>
        ELSE << SubSeq(s, 1, i - 1) >> \o Split(SubSeq(s, i + Len(sep), Len(s)), sep)

DigitChar(n) == CASE n = 0 -> "0" [] n = 1 -> "1" [] n = 2 -> "2" [] n = 3 -> "3"
                  [] n = 4 -> "4" [] n = 5 -> "5" [] n = 6 -> "6" [] n = 7 -> "7"
                  [] n = 8 -> "8" [] n = 9 -> "9"
\* f"{n}" for a natural number
RECURSIVE NatStr(_)
NatStr(n) == IF n < 10 THEN << DigitChar(n) >>
             ELSE NatStr(n \div 10) \o << DigitChar(n % 10) >>

\* WaterflowGUI.parseData; ok is FALSE when the tuple unpacking of the split
\* raises ValueError (the split of a valve line does not have two parts)
ParseData(data) ==
    IF Contains(data, VALVE_TAG)
    THEN LET parts == Split(Strip(data, Range(VALVE_TAG)), VALVE_SEP)
         IN  IF Len(parts) = 2
             THEN [ok |-> TRUE, pairs |-> << << PIN \o parts[1], parts[2] >> >>]
             ELSE [ok |-> FALSE, pairs |-> << >>]
    ELSE IF Contains(data, PRESSURE_SEP)
    THEN LET parts == Split(data, PRESSURE_SEP)
         IN  [ok |-> TRUE,
              pairs |-> [i \in 1..Len(parts) |-> << PRESSURE \o NatStr(i), parts[i] >>]]
    ELSE [ok |-> TRUE, pairs |-> << >>]

\* dynamicLabels[dest].update(value.strip()); a dest that is no key is skipped
UpdateOne(lbls, dest, value) ==
    LET v == Strip(value, Whitespace)
    IN  IF \E i \in 1..5 : dest = PIN \o NatStr(i)
        THEN LET i == CHOOSE i \in 1..5 : dest = PIN \o NatStr(i)
             IN  [lbls EXCEPT ![i].valve = IF v = <<"1">> THEN "OPEN" ELSE "CLOSED"]
        ELSE IF \E i \in 1..5 : dest = PRESSURE \o NatStr(i)
        THEN LET i == CHOOSE i \in 1..5 : dest = PRESSURE \o NatStr(i)
             IN  [lbls EXCEPT ![i].pressure = v]
        ELSE lbls

\* WaterflowGUI.updateDisplay
RECURSIVE UpdateDisplay(_, _)
UpdateDisplay(lbls, dataset) ==
    IF dataset = << >> THEN lbls
    ELSE UpdateDisplay(UpdateOne(lbls, dataset[1][1], dataset[1][2]), Tail(dataset))

\* WaterflowGUI.strFormat without the time stamp
StrFormat(string) == Strip(string, Whitespace)

----------------------------------------------------------------------------
Init ==
    /\ fpc = "idle" /\ fgOp = "none" /\ message = << >> /\ seconds = 0
    /\ inPreset = FALSE
    /\ screenAccess = FALSE /\ ctlEnabled = FALSE /\ lockEnabled = TRUE
    /\ msgBox = "" /\ modal = FALSE /\ closed = FALSE
    /\ monitor = << >>
    /\ labels = [i \in 1..5 |-> [valve |-> "CLOSED", pressure |-> <<"n", "/", "a">>]]
    /\ pins = << >> /\ program = TRUE /\ mutex = "free"
    /\ wpc = "while" /\ error = FALSE /\ received = << >> /\ line = << >>
    /\ isOpen = TRUE /\ rigLeft = MaxRigBytes
    /\ timers = << >> /\ evq = << >>
    /\ writes = << >> /\ emitted = << >> /\ presets = << >>
    /\ clicks = 0 /\ lockToggles = 0 /\ endCalls = 0 /\ errorEmits = 0 /\ cleanupEmits = 0
    /\ reads = << >> /\ lateReads = 0 /\ sink = << >>

----------------------------------------------------------------------------
(* threading.Timer *)

\* Timer(seconds, function=self.sendInterrupt) followed by start()
NewTimer(n, interval) ==
    [preset |-> n, interval |-> interval, finished |-> FALSE, phase |-> "waiting",
     early |-> FALSE]

\* mutant: a cancel() that does not set the finished event
TimerCancelNoop(t) == t

\* Timer.cancel(): sets the finished event
TimerCancel(t) == [t EXCEPT !.finished = TRUE]

\* Timer.run: finished.wait(interval) timed out and finished is not set
TimerExpire ==
    \E k \in DOMAIN timers :
        /\ timers[k].phase = "waiting" /\ ~timers[k].finished
        /\ timers' = [timers EXCEPT ![k].phase = "expired"]
        /\ UNCHANGED << guiVars, workerVars, histVars, pins, program, mutex,
                        isOpen, rigLeft, evq >>

\* Timer.run: self.function() = sendInterrupt, called on the timer's thread: the
\* emission of serialInterrupt is queued for the GUI thread; then finished.set()
TimerFire ==
    \E k \in DOMAIN timers :
        /\ timers[k].phase = "expired"
        /\ timers' = [timers EXCEPT ![k].phase = "called", ![k].finished = TRUE]
        /\ evq' = Append(evq, [type |-> "interrupt", data |-> << >>, timer |-> k])
        /\ UNCHANGED << guiVars, workerVars, histVars, pins, program, mutex,
                        isOpen, rigLeft >>

----------------------------------------------------------------------------
(* SerialWorker.sendToggle, executed by the GUI thread *)

\* entry of sendToggle(arg) from slot op, self.pins being stored: builds the
\* message, enters the loop
SendToggle(arg, stored, op) ==
    /\ message' = ToggleMessage(arg, stored)
    /\ fpc' = "spin"
    /\ fgOp' = op

\* mutant: sendToggle that writes without waiting for the mutex
SendToggleTryLockUnguarded ==
    /\ fpc = "spin"
    /\ mutex' = "fg"
    /\ fpc' = "send"
    /\ UNCHANGED << fgOp, message, seconds, inPreset, screenAccess, ctlEnabled,
                    lockEnabled, msgBox, modal, closed, monitor, labels,
                    workerVars, histVars, pins, program, isOpen, rigLeft, timers, evq >>

\* mutex.tryLock() succeeds (a failed tryLock repeats the loop: no step)
SendToggleTryLock ==
    /\ fpc = "spin"
    /\ mutex = "free"
    /\ mutex' = "fg"
    /\ fpc' = "send"
    /\ UNCHANGED << fgOp, message, seconds, inPreset, screenAccess, ctlEnabled,
                    lockEnabled, msgBox, modal, closed, monitor, labels,
                    workerVars, histVars, pins, program, isOpen, rigLeft, timers, evq >>

\* SerialComm.sendMessage: opens the connection if closed, then writes.  A
\* SerialException of write is caught (return False); sendToggle ignores the
\* returned bool, so both outcomes leave the caller in the same state.
SendMessage ==
    /\ fpc = "send"
    /\ isOpen' = TRUE
    /\ writes' = Append(writes, [msg |-> message, op |-> fgOp,
                                 preset |-> IF fgOp = "specific" THEN 0 ELSE Len(presets)])
    /\ fpc' = "unlock"
    /\ UNCHANGED << fgOp, message, seconds, inPreset, screenAccess, ctlEnabled,
                    lockEnabled, msgBox, modal, closed, monitor, labels,
                    workerVars, pins, program, mutex, rigLeft, timers, evq,
                    emitted, presets, clicks, lockToggles, endCalls, errorEmits, cleanupEmits, reads, sink, lateReads >>

\* SerialComm.sendMessage: connection.open() raises outside the try block; the
\* exception leaves sendToggle before mutex.unlock() and leaves the slot
SendMessageOpenFails ==
    /\ fpc = "send"
    /\ ~isOpen
    /\ fpc' = "crashed"
    /\ UNCHANGED << fgOp, message, seconds, inPreset, screenAccess, ctlEnabled,
                    lockEnabled, msgBox, modal, closed, monitor, labels,
                    workerVars, histVars, pins, program, mutex, isOpen, rigLeft,
                    timers, evq >>

\* mutex.unlock(), break, and the rest of the calling slot, none of which
\* another thread can observe half-done except through timers:
\*   presetRun:  self.timeout = Timer(...); self.timeout.start()
\*   endPreset:  self.timeout.cancel(); self.inPreset = False; enterData();
\*               displayAccessPresetToggle(True)
SendToggleUnlock ==
    /\ fpc = "unlock"
    /\ mutex' = "free"
    /\ fpc' = "idle"
    /\ fgOp' = "none"
    /\ seconds' = 0
    /\ CASE fgOp = "presetRun" ->
              /\ timers' = Append(timers, NewTimer(Len(presets), seconds))
              /\ UNCHANGED << inPreset, ctlEnabled, lockEnabled >>
         [] fgOp = "endPreset" ->
              /\ timers' = [timers EXCEPT ![Len(timers)] =
                                [TimerCancel(@) EXCEPT !.early =
                                     (timers[Len(timers)].phase = "waiting")]]
              /\ inPreset' = FALSE
              /\ ctlEnabled' = TRUE
              /\ lockEnabled' = TRUE
         [] OTHER ->
              UNCHANGED << timers, inPreset, ctlEnabled, lockEnabled >>
    /\ UNCHANGED << message, screenAccess, msgBox, modal, closed, monitor,
                    labels, workerVars, histVars, pins, program, isOpen, rigLeft, evq >>

----------------------------------------------------------------------------
(* Slots of WaterflowGUI, executed by the GUI thread from its event loop *)

\* the event loop can deliver a click: no slot is running, no modal box is up
CanClick == fpc = "idle" /\ ~modal /\ ~closed /\ clicks < MaxClicks

\* WaterflowGUI.toggleScreenLock (screenLock button)
ToggleScreenLock ==
    /\ fpc = "idle" /\ ~modal /\ ~closed
    /\ lockEnabled
    /\ lockToggles < MaxLockToggles
    /\ lockToggles' = lockToggles + 1
    /\ screenAccess' = ~screenAccess
    /\ ctlEnabled' = ~screenAccess
    /\ UNCHANGED << fpc, fgOp, message, seconds, inPreset, lockEnabled, msgBox,
                    modal, closed, monitor, labels, workerVars, pins, program, mutex,
                    isOpen, rigLeft, timers, evq, writes, emitted, presets, clicks,
                    endCalls, errorEmits, cleanupEmits, reads, sink, lateReads >>

\* mutant: presetRun without the `if not self.inPreset` guard
PresetRunUnguarded(t, p) ==
    /\ IF ~FloatOk(t)
       THEN /\ msgBox' = TIME_ERROR
            /\ UNCHANGED << fpc, fgOp, message, seconds, inPreset, ctlEnabled,
                            lockEnabled, pins, presets >>
       ELSE IF HasDuplicate(p)
       THEN /\ msgBox' = DUP_ERROR
            /\ UNCHANGED << fpc, fgOp, message, seconds, inPreset, ctlEnabled,
                            lockEnabled, pins, presets >>
       ELSE /\ seconds' = FloatVal(t)
            /\ ctlEnabled' = FALSE
            /\ lockEnabled' = FALSE
            /\ pins' = SetPins(p)
            /\ inPreset' = TRUE
            /\ presets' = Append(presets, p)
            /\ SendToggle(<< >>, pins', "presetRun")
            /\ UNCHANGED msgBox
    /\ UNCHANGED << screenAccess, modal, closed, monitor, labels, workerVars,
                    program, mutex, isOpen, rigLeft, timers, evq, writes, emitted,
                    endCalls, errorEmits, cleanupEmits, lockToggles, reads, sink,
                    lateReads >>

\* WaterflowGUI.presetRun with the text fields holding t (interval) and p (pins)
PresetRun(t, p) ==
    /\ IF inPreset
       THEN UNCHANGED << fpc, fgOp, message, seconds, inPreset, ctlEnabled,
                         lockEnabled, msgBox, pins, presets >>
       ELSE IF ~FloatOk(t)
       THEN /\ msgBox' = TIME_ERROR
            /\ UNCHANGED << fpc, fgOp, message, seconds, inPreset, ctlEnabled,
                            lockEnabled, pins, presets >>
       ELSE IF HasDuplicate(p)
       THEN /\ msgBox' = DUP_ERROR
            /\ UNCHANGED << fpc, fgOp, message, seconds, inPreset, ctlEnabled,
                            lockEnabled, pins, presets >>
       ELSE /\ seconds' = FloatVal(t)
            /\ ctlEnabled' = FALSE
            /\ lockEnabled' = FALSE
            /\ pins' = SetPins(p)
            /\ inPreset' = TRUE
            /\ presets' = Append(presets, p)
            /\ SendToggle(<< >>, pins', "presetRun")
            /\ UNCHANGED msgBox
    /\ UNCHANGED << screenAccess, modal, closed, monitor, labels, workerVars,
                    program, mutex, isOpen, rigLeft, timers, evq, writes, emitted,
                    endCalls, errorEmits, cleanupEmits, lockToggles, reads, sink, lateReads >>

\* click on startPresetButton
ClickStart ==
    /\ CanClick /\ ctlEnabled
    /\ clicks' = clicks + 1
    /\ \E t \in TimeInputs, p \in PinInputs : PresetRun(t, p)

\* presetRun called while a preset is running: the Start button is disabled
\* then, so this is a call of the method by other means than the button
CallPresetRun ==
    /\ CanClick /\ inPreset
    /\ clicks' = clicks + 1
    /\ \E t \in TimeInputs, p \in PinInputs : PresetRun(t, p)

\* mutant: endPreset without the `if self.inPreset` guard
EndPresetUnguarded ==
    /\ endCalls' = endCalls + 1
    /\ SendToggle(<< >>, pins, "endPreset")
    /\ UNCHANGED << seconds, inPreset, screenAccess, ctlEnabled, lockEnabled,
                    msgBox, modal, closed, monitor, labels, workerVars, pins,
                    program, mutex, isOpen, rigLeft, timers, writes, emitted,
                    presets, errorEmits, cleanupEmits, lockToggles, reads, sink, lateReads >>

\* WaterflowGUI.endPreset
EndPreset ==
    /\ endCalls' = endCalls + 1
    /\ IF inPreset
       THEN /\ SendToggle(<< >>, pins, "endPreset")
       ELSE UNCHANGED << fpc, fgOp, message >>
    /\ UNCHANGED << seconds, inPreset, screenAccess, ctlEnabled, lockEnabled,
                    msgBox, modal, closed, monitor, labels, workerVars, pins,
                    program, mutex, isOpen, rigLeft, timers, writes, emitted,
                    presets, errorEmits, cleanupEmits, lockToggles, reads, sink, lateReads >>

\* click on cancelPresetButton: sendInterrupt on the GUI thread, so the
\* emission of serialInterrupt calls endPreset directly
ClickCancel ==
    /\ CanClick /\ screenAccess
    /\ clicks' = clicks + 1
    /\ EndPreset
    /\ UNCHANGED evq

\* mutant: an ad-hoc toggle that stores its argument as self.pins
SendSpecificToggleStores(command) ==
    /\ IF HasDuplicate(command)
       THEN /\ msgBox' = DUP_ERROR
            /\ UNCHANGED << fpc, fgOp, message, pins >>
       ELSE /\ pins' = command
            /\ SendToggle(command, pins', "specific")
            /\ UNCHANGED msgBox
    /\ UNCHANGED << seconds, inPreset, screenAccess, ctlEnabled, lockEnabled,
                    modal, closed, monitor, labels, workerVars, program,
                    mutex, isOpen, rigLeft, timers, evq, writes, emitted, presets,
                    endCalls, errorEmits, cleanupEmits, lockToggles, reads, sink, lateReads >>

\* WaterflowGUI.sendSpecificToggle with the text field holding command
SendSpecificToggle(command) ==
    /\ IF HasDuplicate(command)
       THEN /\ msgBox' = DUP_ERROR
            /\ UNCHANGED << fpc, fgOp, message >>
       ELSE /\ SendToggle(command, pins, "specific")
            /\ UNCHANGED msgBox
    /\ UNCHANGED << seconds, inPreset, screenAccess, ctlEnabled, lockEnabled,
                    modal, closed, monitor, labels, workerVars, pins, program,
                    mutex, isOpen, rigLeft, timers, evq, writes, emitted, presets,
                    endCalls, errorEmits, cleanupEmits, lockToggles, reads, sink, lateReads >>

\* click on sendCommandButton
ClickSend ==
    /\ CanClick /\ ctlEnabled
    /\ clicks' = clicks + 1
    /\ \E command \in CommandInputs : SendSpecificToggle(command)

\* WaterflowGUI.closeEvent, first half: self.serialWorker.program = False
CloseEvent ==
    /\ program' = FALSE
    /\ fpc' = "closing"

\* WaterflowGUI.closeEvent, after time.sleep(0.1): closes the connection if open
CloseEventClose ==
    /\ fpc = "closing"
    /\ isOpen' = FALSE
    /\ closed' = TRUE
    /\ modal' = FALSE
    /\ fpc' = "idle"
    /\ UNCHANGED << fgOp, message, seconds, inPreset, screenAccess, ctlEnabled,
                    lockEnabled, msgBox, monitor, labels, workerVars, histVars,
                    pins, program, mutex, rigLeft, timers, evq >>

\* the operator closes the window
CloseWindow ==
    /\ CanClick
    /\ clicks' = clicks + 1
    /\ CloseEvent
    /\ UNCHANGED << fgOp, message, seconds, inPreset, screenAccess, ctlEnabled,
                    lockEnabled, msgBox, modal, closed, monitor, labels, workerVars,
                    pins, mutex, isOpen, rigLeft, timers, evq, writes, emitted,
                    presets, endCalls, errorEmits, cleanupEmits, lockToggles, reads, sink, lateReads >>

\* queued serialInterrupt -> endPreset
HandleInterrupt ==
    /\ fpc = "idle"
    /\ evq # << >> /\ Head(evq).type = "interrupt"
    /\ evq' = Tail(evq)
    /\ EndPreset
    /\ UNCHANGED clicks

\* queued msg -> WaterflowGUI.displayControl
DisplayControl ==
    /\ fpc = "idle"
    /\ evq # << >> /\ Head(evq).type = "msg"
    /\ evq' = Tail(evq)
    /\ monitor' = IF inPreset THEN Append(monitor, StrFormat(Head(evq).data))
                  ELSE monitor
    /\ LET data == ParseData(Head(evq).data)
       IN  /\ sink' = Append(sink, [line |-> Head(evq).data, ok |-> data.ok,
                                    pairs |-> data.pairs])
           /\ IF data.ok
              THEN /\ labels' = UpdateDisplay(labels, data.pairs)
                   /\ UNCHANGED fpc
              ELSE /\ fpc' = "crashed"
                   /\ UNCHANGED labels
    /\ UNCHANGED << fgOp, message, seconds, inPreset, screenAccess, ctlEnabled,
                    lockEnabled, msgBox, modal, closed, workerVars, pins,
                    program, mutex, isOpen, rigLeft, timers, writes, emitted, presets,
                    clicks, lockToggles, endCalls, errorEmits, cleanupEmits, reads, lateReads >>

\* queued error -> WaterflowGUI.errorExit, up to box.exec(): the message box
\* runs a nested event loop, in which queued signals are still delivered
ErrorExit ==
    /\ fpc = "idle"
    /\ evq # << >> /\ Head(evq).type = "error"
    /\ evq' = Tail(evq)
    /\ msgBox' = SERIAL_ERROR
    /\ modal' = TRUE
    /\ UNCHANGED << fpc, fgOp, message, seconds, inPreset, screenAccess, ctlEnabled,
                    lockEnabled, closed, monitor, labels, workerVars, histVars,
                    pins, program, mutex, isOpen, rigLeft, timers >>

\* WaterflowGUI.errorExit after the box is dismissed: self.close() -> closeEvent
ErrorExitClose ==
    /\ fpc = "idle" /\ modal
    /\ CloseEvent
    /\ UNCHANGED << fgOp, message, seconds, inPreset, screenAccess, ctlEnabled,
                    lockEnabled, msgBox, modal, closed, monitor, labels, workerVars,
                    histVars, pins, mutex, isOpen, rigLeft, timers, evq >>


----------------------------------------------------------------------------
(* SerialWorker.run, executed by the worker thread *)

\* mutant: a loop that also ends when the fault flag is set
RunWhileStopsOnError ==
    /\ wpc = "while"
    /\ wpc' = IF program /\ ~error THEN "iferr" ELSE "cleanup"
    /\ UNCHANGED << guiVars, histVars, error, received, line, pins, program, mutex,
                    isOpen, rigLeft, timers, evq >>

\* `while self.program:`; on exit the cleanup statement is next
RunWhile ==
    /\ wpc = "while"
    /\ wpc' = IF program THEN "iferr" ELSE "cleanup"
    /\ UNCHANGED << guiVars, histVars, error, received, line, pins, program, mutex,
                    isOpen, rigLeft, timers, evq >>

\* mutant: a loop body without the `if not error` test
RunTryLockIgnoresError ==
    /\ wpc = "iferr"
    /\ IF mutex = "free"
       THEN /\ mutex' = "bg"
            /\ line' = << >>
            /\ wpc' = "read"
            /\ lateReads' = IF program THEN lateReads ELSE lateReads + 1
       ELSE /\ wpc' = "while"
            /\ UNCHANGED << mutex, line, lateReads >>
    /\ UNCHANGED << guiVars, error, received, pins, program, isOpen,
                    rigLeft, timers, evq, writes, emitted, presets, clicks,
                    lockToggles, endCalls, errorEmits, cleanupEmits, reads, sink >>

\* `if not error:` and `if self.mutex.tryLock():`; readEolLine starts with an
\* empty bytearray
RunTryLock ==
    /\ wpc = "iferr"
    /\ IF ~error /\ mutex = "free"
       THEN /\ mutex' = "bg"
            /\ line' = << >>
            /\ wpc' = "read"
            /\ lateReads' = IF program THEN lateReads ELSE lateReads + 1
       ELSE /\ wpc' = "while"
            /\ UNCHANGED << mutex, line, lateReads >>
    /\ UNCHANGED << guiVars, error, received, pins, program, isOpen,
                    rigLeft, timers, evq, writes, emitted, presets, clicks,
                    lockToggles, endCalls, errorEmits, cleanupEmits, reads, sink >>

\* mutant: a readEolLine that returns the line without its line feed
ReturnLineStripped(l) ==
    IF AsciiOk(l)
    THEN /\ received' = RStrip(l, {LF})
         /\ reads' = IF RStrip(l, {LF}) # << >> THEN Append(reads, RStrip(l, {LF})) ELSE reads
         /\ UNCHANGED << error, errorEmits, evq >>
    ELSE /\ evq' = Append(evq, [type |-> "error", data |-> << >>, timer |-> 0])
         /\ errorEmits' = errorEmits + 1
         /\ error' = TRUE
         /\ received' = << >>
         /\ UNCHANGED reads

\* the end of readEolLine: line.decode("ascii") is returned to run, or raises
\* UnicodeDecodeError, which run catches like SerialException
ReturnLine(l) ==
    IF AsciiOk(l)
    THEN /\ received' = l
         /\ reads' = IF l # << >> THEN Append(reads, l) ELSE reads
         /\ UNCHANGED << error, errorEmits, evq >>
    ELSE /\ evq' = Append(evq, [type |-> "error", data |-> << >>, timer |-> 0])
         /\ errorEmits' = errorEmits + 1
         /\ error' = TRUE
         /\ received' = << >>
         /\ UNCHANGED reads

\* readEolLine: connection.read(1) returns a byte
ReadByte ==
    /\ wpc = "read"
    /\ isOpen
    /\ rigLeft > 0
    /\ rigLeft' = rigLeft - 1
    /\ \E c \in RigBytes :
          /\ line' = Append(line, c)
          /\ IF c = LF
             THEN /\ ReturnLine(line')
                  /\ wpc' = "unlock"
             ELSE UNCHANGED << wpc, received, error, errorEmits, evq, reads >>
    /\ UNCHANGED << guiVars, pins, program, mutex, isOpen, timers, writes, emitted,
                    presets, clicks, endCalls, cleanupEmits, lockToggles, sink, lateReads >>

\* readEolLine from its first read(1) to its return, the rig sending the bytes
\* of l: followed by a line feed (eol), or followed by silence, so that read(1)
\* times out after the last byte of l.  The bytes go to the local bytearray
\* while the worker holds the mutex, so no other thread sees the steps between.
ReadEolLine ==
    /\ wpc = "read"
    /\ isOpen
    /\ rigLeft > 0
    /\ rigLeft' = rigLeft - 1
    /\ \E l \in RigLines, eol \in BOOLEAN :
          /\ line' = IF eol THEN l \o <<LF>> ELSE l
          /\ ReturnLine(line')
    /\ wpc' = "unlock"
    /\ UNCHANGED << guiVars, pins, program, mutex, isOpen, timers, writes, emitted,
                    presets, clicks, endCalls, cleanupEmits, lockToggles, sink, lateReads >>

\* readEolLine: connection.read(1) times out and returns b""
ReadTimeout ==
    /\ wpc = "read"
    /\ isOpen
    /\ ReturnLine(line)
    /\ wpc' = "unlock"
    /\ UNCHANGED << guiVars, line, pins, program, mutex, isOpen, rigLeft, timers,
                    writes, emitted, presets, clicks, lockToggles, endCalls, cleanupEmits, sink, lateReads >>

\* mutant: a read fault that also ends the running preset
ReadFaultEndsPreset ==
    /\ wpc = "read"
    /\ evq' = Append(evq, [type |-> "error", data |-> << >>, timer |-> 0])
    /\ errorEmits' = errorEmits + 1
    /\ error' = TRUE
    /\ received' = << >>
    /\ wpc' = "unlock"
    /\ inPreset' = FALSE
    /\ UNCHANGED << fpc, fgOp, message, seconds, screenAccess, ctlEnabled, lockEnabled,
                    msgBox, modal, closed, monitor, labels, line, pins, program, mutex,
                    isOpen, rigLeft, timers, writes, emitted, presets, clicks,
                    lockToggles, endCalls, cleanupEmits, reads, sink, lateReads >>

\* readEolLine: connection.read(1) raises SerialException (the transport failed,
\* or the port is not open); run emits error and sets its fault flag
ReadFault ==
    /\ wpc = "read"
    /\ evq' = Append(evq, [type |-> "error", data |-> << >>, timer |-> 0])
    /\ errorEmits' = errorEmits + 1
    /\ error' = TRUE
    /\ received' = << >>
    /\ wpc' = "unlock"
    /\ UNCHANGED << guiVars, line, pins, program, mutex, isOpen, rigLeft, timers,
                    writes, emitted, presets, clicks, lockToggles, endCalls, cleanupEmits, reads, sink, lateReads >>

\* mutant: a loop body that repeats without testing self.program again
RunUnlockSkipsTest ==
    /\ wpc = "unlock"
    /\ mutex' = "free"
    /\ wpc' = IF received = << >> THEN "iferr" ELSE "fwd"
    /\ UNCHANGED << guiVars, histVars, error, received, line, pins, program, isOpen,
                    rigLeft, timers, evq >>

\* mutant: a loop that forwards whatever the read returned
RunUnlockForwardsEmpty ==
    /\ wpc = "unlock"
    /\ mutex' = "free"
    /\ wpc' = IF error THEN "while" ELSE "fwd"
    /\ UNCHANGED << guiVars, histVars, error, received, line, pins, program, isOpen,
                    rigLeft, timers, evq >>

\* time.sleep(0.05); self.mutex.unlock(); time.sleep(0.02);
\* `if not received: continue`
RunUnlock ==
    /\ wpc = "unlock"
    /\ mutex' = "free"
    /\ wpc' = IF received = << >> THEN "while" ELSE "fwd"
    /\ UNCHANGED << guiVars, histVars, error, received, line, pins, program, isOpen,
                    rigLeft, timers, evq >>

\* self.msg.emit(received): queued for the GUI thread
RunForward ==
    /\ wpc = "fwd"
    /\ wpc' = "while"
    /\ evq' = Append(evq, [type |-> "msg", data |-> received, timer |-> 0])
    /\ emitted' = Append(emitted, received)
    /\ UNCHANGED << guiVars, error, received, line, pins, program, mutex, isOpen,
                    rigLeft, timers, writes, presets, clicks, lockToggles, endCalls,
                    errorEmits, cleanupEmits, reads, sink, lateReads >>

\* self.cleanup.emit() after the loop (connected to serialThread.quit)
RunCleanup ==
    /\ wpc = "cleanup"
    /\ wpc' = "done"
    /\ cleanupEmits' = cleanupEmits + 1
    /\ UNCHANGED << guiVars, error, received, line, pins, program, mutex, isOpen,
                    rigLeft, timers, evq, writes, emitted, presets, clicks, lockToggles,
                    endCalls, errorEmits, reads, sink, lateReads >>

----------------------------------------------------------------------------
Worker == \/ RunWhile \/ RunTryLock \/ ReadByte \/ ReadTimeout \/ ReadFault
          \/ RunUnlock \/ RunForward \/ RunCleanup

Next ==
    \/ ToggleScreenLock
    \/ ClickStart
    \/ ClickCancel
    \/ ClickSend
    \/ CloseWindow
    \/ CloseEventClose
    \/ HandleInterrupt
    \/ DisplayControl
    \/ ErrorExit
    \/ ErrorExitClose
    \/ SendToggleTryLock
    \/ SendMessage
    \/ SendMessageOpenFails
    \/ SendToggleUnlock
    \/ TimerExpire
    \/ TimerFire
    \/ RunWhile
    \/ RunTryLock
    \/ ReadByte
    \/ ReadTimeout
    \/ ReadFault
    \/ RunUnlock
    \/ RunForward
    \/ RunCleanup

Spec == Init /\ [][Next]_vars

\* the worker thread is scheduled whatever the GUI thread does
LiveSpec == Spec /\ WF_vars(Worker)

\* the read loop and the telemetry path alone, the rig sending whole lines: the
\* operator only closes the window
TelemetryNext ==
    \/ RunWhile
    \/ RunTryLock
    \/ ReadEolLine
    \/ ReadTimeout
    \/ ReadFault
    \/ RunUnlock
    \/ RunForward
    \/ RunCleanup
    \/ DisplayControl
    \/ ErrorExit
    \/ ErrorExitClose
    \/ CloseWindow
    \/ CloseEventClose

TelemetrySpec == Init /\ [][TelemetryNext]_vars

\* the preset engine alone (the worker is not scheduled), presetRun being
\* called also while a preset runs
EngineNext ==
    \/ ToggleScreenLock
    \/ ClickStart
    \/ CallPresetRun
    \/ ClickCancel
    \/ CloseWindow
    \/ CloseEventClose
    \/ HandleInterrupt
    \/ SendToggleTryLock
    \/ SendMessage
    \/ SendMessageOpenFails
    \/ SendToggleUnlock
    \/ TimerExpire
    \/ TimerFire

EngineSpec == Init /\ [][EngineNext]_vars

\* the steps of the GUI thread inside sendMessage and after it
Foreground == SendMessage \/ SendMessageOpenFails \/ SendToggleUnlock \/ CloseEventClose

\* the deliveries of queued signals by the event loop of the open window
EventLoop == ~closed /\ (HandleInterrupt \/ DisplayControl \/ ErrorExit)

\* the threads of the Timer objects
TimerThreads == TimerExpire \/ TimerFire

\* every thread is scheduled; the event loop delivers queued signals as long as
\* the window is open; the GUI thread spinning on tryLock gets the mutex when
\* the worker frees it again and again (the worker sleeps 20 ms after each
\* unlock, the spinning thread does not sleep)
FairSpec ==
    /\ Spec
    /\ WF_vars(Worker)
    /\ WF_vars(TimerThreads)
    /\ WF_vars(Foreground)
    /\ WF_vars(EventLoop)
    /\ SF_vars(SendToggleTryLock)


----------------------------------------------------------------------------
(* Observations shared by the properties below *)

\* the writes issued by slot op for preset n (n = 0: outside any preset)
WritesOf(op, n) == { i \in DOMAIN writes : writes[i].op = op /\ writes[i].preset = n }
\* the messages written for preset n, in order
RECURSIVE PresetMessages(_, _)
PresetMessages(w, n) ==
    IF w = << >> THEN << >>
    ELSE IF w[1].preset = n THEN << w[1].msg >> \o PresetMessages(Tail(w), n)
    ELSE PresetMessages(Tail(w), n)
\* the Timer objects created for preset n
ClocksOf(n) == { k \in DOMAIN timers : timers[k].preset = n }
\* presetRun has returned for preset n
Started(n) == n < Len(presets) \/ fgOp # "presetRun"
\* endPreset has ended preset n
Ended(n) == n < Len(presets) \/ ~inPreset
\* queued deliveries of serialInterrupt
QueuedInterrupts == { i \in DOMAIN evq : evq[i].type = "interrupt" }
\* s has a character that occurs twice
Repeated(s) == \E i, j \in DOMAIN s : i # j /\ s[i] = s[j]
\* t is the text of a number greater than zero
PositiveNumber(t) ==
    LET body == IF t # << >> /\ t[1] = "+" THEN Tail(t) ELSE t
    IN  /\ body # << >>
        /\ \A i \in DOMAIN body : body[i] \in Digits
        /\ \E i \in DOMAIN body : body[i] # "0"
\* one step of the GUI thread inside sendToggle
SendToggleStep == SendToggleTryLock \/ SendMessage \/ SendToggleUnlock

----------------------------------------------------------------------------
(* C1: in every reachable state the worker being inside readEolLine and the    *)
(* GUI thread being inside sendMessage exclude each other, and each of them    *)
(* is inside its operation only while its own thread holds the mutex.          *)
C1_MutualExclusion ==
    /\ wpc \in {"read", "unlock"} => mutex = "bg"
    /\ fpc \in {"send", "unlock"} => mutex = "fg"
    /\ ~(wpc = "read" /\ fpc = "send")

\* the reader is in the middle of a line while a writer waits for the mutex
C1_Witness == wpc = "read" /\ line # << >> /\ fpc = "spin" /\ mutex = "bg"

(* C2: an accepted presetRun moves the engine to PresetRunning and records    *)
(* the pins (with the data flag) as self.pins, both holding until the closing  *)
(* write; it issues exactly one toggle write and creates exactly one Timer,    *)
(* and every Timer that fired queued one delivery of endPreset.                *)
C2_StartPreset ==
    /\ \A n \in DOMAIN presets :
          /\ Cardinality(WritesOf("presetRun", n)) <= 1
          /\ Cardinality(ClocksOf(n)) <= 1
          /\ Started(n) => /\ Cardinality(WritesOf("presetRun", n)) = 1
                           /\ Cardinality(ClocksOf(n)) = 1
          /\ (n = Len(presets) /\ WritesOf("endPreset", n) = {})
                => inPreset /\ pins = presets[n] \o << PT_DATA_FLAG >>
    /\ Len(timers) <= Len(presets)
    /\ Cardinality({ k \in DOMAIN timers : timers[k].phase = "called" })
          <= Cardinality(QueuedInterrupts) + endCalls

\* presetRun has returned for the pins "24": the engine is PresetRunning, one
\* write is out and one Timer waits
C2_Witness ==
    /\ presets = << <<"2", "4">> >> /\ fgOp = "none" /\ inPreset
    /\ Len(writes) = 1 /\ Len(timers) = 1 /\ timers[1].phase = "waiting"

(* C3 as claimed: a preset started with pin string p that has ended wrote     *)
(* exactly two messages, both p followed by a newline.                         *)
C3_AsClaimed ==
    \A n \in DOMAIN presets :
        Ended(n) => PresetMessages(writes, n) = << presets[n] \o <<LF>>, presets[n] \o <<LF>> >>

(* C3 amended: a preset started with pin string p that has ended wrote        *)
(* exactly two messages, one by presetRun and one by endPreset, both p         *)
(* followed by the data flag "d" and a newline.                                *)
C3_TwoWrites ==
    \A n \in DOMAIN presets :
        Ended(n) =>
            /\ PresetMessages(writes, n) =
                  << presets[n] \o << PT_DATA_FLAG, LF >>, presets[n] \o << PT_DATA_FLAG, LF >> >>
            /\ Cardinality(WritesOf("presetRun", n)) = 1
            /\ Cardinality(WritesOf("endPreset", n)) = 1

\* the preset "24" has been started and ended
C3_Witness == presets # << >> /\ presets[1] = <<"2", "4">> /\ Ended(1) /\ Len(writes) = 2

(* C4: a call of endPreset while the engine is Idle writes nothing, cancels   *)
(* nothing and leaves the engine Idle; no preset ever gets two closing writes. *)
C4_EndPresetIdempotent ==
    /\ [](\A n \in DOMAIN presets : Cardinality(WritesOf("endPreset", n)) <= 1)
    /\ [][ (~inPreset /\ endCalls' = endCalls + 1)
              => UNCHANGED << inPreset, writes, timers, mutex, fpc, fgOp, pins >> ]_vars

\* endPreset has been called twice, one preset was started, and one closing
\* write is out
C4_Witness ==
    /\ endCalls = 2 /\ Len(presets) = 1 /\ ~inPreset /\ fpc = "idle"
    /\ Cardinality(WritesOf("endPreset", 1)) = 1
    /\ timers[1].phase = "called" /\ QueuedInterrupts = {}

(* C5: presetRun and sendSpecificToggle with a pin string that repeats a       *)
(* character take no mutex, write nothing, create no Timer and leave inPreset  *)
(* and self.pins unchanged.                                                    *)
C5_DuplicateRejected ==
    [][ ( \/ \E t \in TimeInputs, p \in PinInputs :
                Repeated(p) /\ clicks' = clicks + 1 /\ PresetRun(t, p)
          \/ \E c \in CommandInputs :
                Repeated(c) /\ clicks' = clicks + 1 /\ SendSpecificToggle(c) )
        => UNCHANGED << mutex, writes, timers, inPreset, pins, fpc, fgOp, isOpen >> ]_vars

\* a request with a repeated pin has been declined
C5_Witness == msgBox = DUP_ERROR /\ fpc = "idle" /\ writes = << >> /\ clicks = 1

(* C6 as claimed: presetRun with an interval text that is not a number         *)
(* greater than zero leaves the engine Idle, writes nothing and creates no     *)
(* Timer.                                                                      *)
C6_AsClaimed ==
    [][ (\E t \in TimeInputs, p \in PinInputs :
            ~PositiveNumber(t) /\ clicks' = clicks + 1 /\ PresetRun(t, p))
        => UNCHANGED << inPreset, pins, fpc, fgOp, mutex, writes, timers >> ]_vars

C9_ReadFault ==
    /\ errorEmits <= 1
    /\ error => /\ errorEmits = 1
                /\ wpc \notin {"read", "fwd"}
                /\ received = << >>
                /\ wpc # "unlock" => mutex # "bg"
    /\ ~error => errorEmits = 0

\* a decoding fault: the loop idles with the fault flag set and the mutex free
C9_Witness == error /\ ~AsciiOk(line) /\ wpc = "iferr" /\ mutex = "free" /\ program

C11_AsClaimed == (fpc = "spin") ~> (fpc = "idle" /\ mutex # "fg")

----------------------------------------------------------------------------
(* Observations of the telemetry path *)

\* the lines displayControl has been called with, in order
SinkLines == [i \in DOMAIN sink |-> sink[i].line]
\* the lines of the queued deliveries of msg, in order
RECURSIVE PendingLines(_)
PendingLines(q) ==
    IF q = << >> THEN << >>
    ELSE IF q[1].type = "msg" THEN << q[1].data >> \o PendingLines(Tail(q))
    ELSE PendingLines(Tail(q))
\* the telemetry events the label objects were given: destination and value
\* without surrounding white space, in the order of the calls
RECURSIVE SinkEvents(_)
SinkEvents(snk) ==
    IF snk = << >> THEN << >>
    ELSE [j \in DOMAIN snk[1].pairs |->
             << snk[1].pairs[j][1], Strip(snk[1].pairs[j][2], Whitespace) >>]
         \o SinkEvents(Tail(snk))
\* the value of the last event for destination dest, none when there is none
LastValue(ev, dest, none) ==
    LET at == { j \in DOMAIN ev : ev[j][1] = dest }
    IN  IF at = {} THEN none
        ELSE ev[CHOOSE j \in at : \A k \in at : k <= j][2]

(* C12: the non-empty strings readEolLine returned are exactly the lines       *)
(* passed to msg.emit, in the same order (the last one may still be on its     *)
(* way); the lines displayControl was called with, followed by the queued      *)
(* ones, are the emitted lines in their order, none twice, none empty; the     *)
(* labels show the last event of that order for each destination, and the      *)
(* lines "Toggle PIN1 0", "3.2, 4.1" give PIN1=0, PRESS1=3.2, PRESS2=4.1.      *)
C12_ForwardedInOrder ==
    /\ reads = IF wpc \in {"unlock", "fwd"} /\ received # << >>
               THEN Append(emitted, received) ELSE emitted
    /\ \A i \in DOMAIN emitted : emitted[i] # << >>
    /\ emitted = SinkLines \o PendingLines(evq)
    /\ \A i \in 1..5 :
          /\ labels[i].pressure =
                LastValue(SinkEvents(sink), PRESSURE \o NatStr(i), <<"n", "/", "a">>)
          /\ labels[i].valve =
                IF LastValue(SinkEvents(sink), PIN \o NatStr(i), <<"0">>) = <<"1">>
                THEN "OPEN" ELSE "CLOSED"
    /\ SinkLines = << <<"T", "o", "g", "g", "l", "e", " ", "P", "I", "N", "1", " ", "0">> \o <<LF>>,
                      <<"3", ".", "2", ",", " ", "4", ".", "1">> \o <<LF>> >>
          => SinkEvents(sink) = << << <<"P", "I", "N", "1">>, <<"0">> >>,
                                  << <<"P", "R", "E", "S", "S", "1">>, <<"3", ".", "2">> >>,
                                  << <<"P", "R", "E", "S", "S", "2">>, <<"4", ".", "1">> >> >>

\* the two lines of the scenario have reached the labels
C12_Witness ==
    /\ SinkLines = << <<"T", "o", "g", "g", "l", "e", " ", "P", "I", "N", "1", " ", "0">> \o <<LF>>,
                      <<"3", ".", "2", ",", " ", "4", ".", "1">> \o <<LF>> >>
    /\ labels[1].pressure = <<"3", ".", "2">> /\ labels[2].pressure = <<"4", ".", "1">>
    /\ Len(reads) = 2 /\ evq = << >>

(* C13 as claimed: parseData is a two-branch dispatch that returns for every   *)
(* line: one pair (PIN<index>, value) when the line contains "Toggle PIN";     *)
(* otherwise one pair (PRESS<i>, field i) per field, in field order, when it   *)
(* contains ", "; otherwise the empty list.  In particular the three lines     *)
(* "Toggle PIN3 1", "12.5, 13.1, 9.9" and "hello world" give the lists of the  *)
(* claim.                                                                      *)
C13_AsClaimed ==
    \A i \in DOMAIN sink :
        LET data == sink[i].line
            out  == sink[i].pairs
        IN  /\ sink[i].ok
            /\ IF Contains(data, VALVE_TAG)
               THEN /\ Len(out) = 1
                    /\ SubSeq(out[1][1], 1, 3) = <<"P", "I", "N">>
               ELSE IF Contains(data, PRESSURE_SEP)
               THEN /\ Len(out) = Len(Split(data, PRESSURE_SEP))
                    /\ \A j \in DOMAIN out :
                          out[j] = << <<"P", "R", "E", "S", "S">> \o NatStr(j),
                                      Split(data, PRESSURE_SEP)[j] >>
               ELSE out = << >>
            /\ data = <<"T", "o", "g", "g", "l", "e", " ", "P", "I", "N", "3", " ", "1">>
                  => out = << << <<"P", "I", "N", "3">>, <<"1">> >> >>
            /\ data = <<"1", "2", ".", "5", ",", " ", "1", "3", ".", "1", ",", " ", "9", ".", "9">>
                  => out = << << <<"P", "R", "E", "S", "S", "1">>, <<"1", "2", ".", "5">> >>,
                              << <<"P", "R", "E", "S", "S", "2">>, <<"1", "3", ".", "1">> >>,
                              << <<"P", "R", "E", "S", "S", "3">>, <<"9", ".", "9">> >> >>
            /\ data = <<"h", "e", "l", "l", "o", " ", "w", "o", "r", "l", "d">> => out = << >>

(* C14 as claimed: a thread that reads, writes, tests is_open or closes the    *)
(* connection holds the mutex while it does so, closeEvent included; the       *)
(* connection is open whenever the worker is inside readEolLine.               *)
C14_AsClaimed ==
    /\ wpc = "read" => mutex = "bg"
    /\ fpc = "send" => mutex = "fg"
    /\ fpc = "closing" => mutex = "fg"
    /\ wpc = "read" => isOpen

----------------------------------------------------------------------------
\* run holds a string that readEolLine returned (no fault)
Returned == wpc \in {"unlock", "fwd"} /\ ~error
\* line feeds occur in s at most as its last character
LineFeedLast(s) == \A i \in DOMAIN s : s[i] = LF => i = Len(s)

(* C15 as claimed: the string readEolLine returned contains no line feed, and  *)
(* it is empty only when the read timed out with no byte obtained.             *)
C15_AsClaimed ==
    /\ Returned => /\ LF \notin Range(received)
                   /\ received = << >> => line = << >>
    /\ \A i \in DOMAIN reads : LF \notin Range(reads[i])

(* C15 amended: the string readEolLine returned is all the bytes it obtained:  *)
(* a complete line keeps its line feed as its last character (and has no       *)
(* other), a line cut by the time-out has none; it is empty only when the read *)
(* timed out with no byte obtained.                                            *)
C15_LineFeedKept ==
    /\ Returned => /\ received = line
                   /\ LineFeedLast(received)
    /\ \A i \in DOMAIN reads : reads[i] # << >> /\ LineFeedLast(reads[i])

\* readEolLine has returned the complete line "a" with its line feed
C15_Witness == Returned /\ received = <<"a", LF>> /\ reads = << <<"a", LF>> >>

(* C16 as claimed: a read of the worker and a write of the GUI thread that     *)
(* find the connection closed open it: the step that ends such a read          *)
(* (readEolLine returns or raises) and the step that performs such a write     *)
(* leave the connection open.                                                  *)
C16_AsClaimed ==
    [][ /\ (wpc = "read" /\ ~isOpen /\ wpc' = "unlock") => isOpen'
        /\ (fpc = "send" /\ ~isOpen /\ fpc' = "unlock") => isOpen' ]_vars

(* C17: inPreset and self.pins change only in a step of presetRun (the click   *)
(* that starts a preset) or of endPreset (its last step, reached from the      *)
(* cancel button or from the Timer's queued signal); no step of run - lock,    *)
(* read, unlock, forward, fault, exit - changes either.                        *)
C17_ForegroundOnly ==
    [][ /\ (inPreset' # inPreset \/ pins' # pins)
              => \/ fgOp' = "presetRun" /\ clicks' = clicks + 1
                 \/ fgOp = "endPreset" /\ fpc = "unlock" /\ fpc' = "idle"
        /\ (wpc' # wpc \/ line' # line \/ received' # received \/ error' # error)
              => UNCHANGED << inPreset, pins >> ]_vars

\* during a preset the loop has read, forwarded, met a fault and ended
C17_Witness ==
    /\ inPreset /\ pins = <<"2", "4", "d">>
    /\ emitted # << >> /\ error /\ wpc = "done"

(* C18: once self.program is False the loop calls readEolLine at most once     *)
(* more, then leaves the loop and emits cleanup, exactly once; cleanup is      *)
(* emitted only after the loop was left, when no read can follow.              *)
C18_StopWithinOneRead ==
    /\ [](/\ lateReads <= 1
          /\ cleanupEmits <= 1
          /\ cleanupEmits = 1 => wpc = "done" /\ ~program
          /\ wpc = "cleanup" => ~program /\ mutex # "bg")
    /\ (~program ~> (wpc = "done" /\ cleanupEmits = 1))

\* the flag was cleared after the test of an iteration: one more read, then
\* the loop ended
C18_Witness == lateReads = 1 /\ wpc = "done" /\ cleanupEmits = 1

(* C19 as claimed: the endPreset queued by a Timer ends only the preset that   *)
(* created this Timer: delivered when that preset has been ended, or when a    *)
(* later preset is running, it starts no sendToggle and changes nothing of     *)
(* the engine.                                                                 *)
C19_AsClaimed ==
    [][ ( /\ fpc = "idle"
          /\ evq # << >> /\ Head(evq).type = "interrupt" /\ evq' = Tail(evq)
          /\ ~(inPreset /\ timers[Head(evq).timer].preset = Len(presets)) )
        => UNCHANGED << fpc, fgOp, message, inPreset, pins, writes, timers >> ]_vars

(* C20 as claimed: every preset that was started is ended with its closing     *)
(* toggle written, whatever ends it - the Timer, the cancel button, or the     *)
(* window being closed while it runs.                                          *)
C20_AsClaimed ==
    \A n \in 1..MaxClicks :
        (Len(presets) >= n) ~> (Ended(n) /\ WritesOf("endPreset", n) # {})

(* C21 as claimed: an ad-hoc toggle whose text is accepted makes sendToggle    *)
(* build the message from that text followed by a newline, also when the text  *)
(* is empty; the stored pins of a preset are not sent by it.                   *)
C21_AsClaimed ==
    [][ \A c \in CommandInputs :
          (clicks' = clicks + 1 /\ SendSpecificToggle(c) /\ ~Repeated(c))
              => message' = c \o <<LF>> ]_vars

(* C22 as claimed: whatever the guarded operation does - a read or a write     *)
(* that succeeds, a write that fails, a read fault, a failed re-open inside    *)
(* the write - the mutex is given back: it is held by the GUI thread only      *)
(* inside sendToggle's guarded part, by the worker only inside run's.          *)
C22_AsClaimed ==
    /\ mutex = "fg" => fpc \in {"send", "unlock"}
    /\ mutex = "bg" => wpc \in {"read", "unlock"}

----------------------------------------------------------------------------
\* the Timers that wait for their interval and have not been cancelled
PendingClocks == { k \in DOMAIN timers : timers[k].phase = "waiting" /\ ~timers[k].finished }

(* C23: presetRun called while inPreset is set writes nothing, takes no mutex, *)
(* leaves self.pins and the Timers as they are; in every state at most one     *)
(* Timer is pending, and when one is pending inPreset is set.                  *)
C23_OneClock ==
    /\ [](Cardinality(PendingClocks) <= 1 /\ (PendingClocks # {} => inPreset))
    /\ [][ (inPreset /\ clicks' = clicks + 1
               /\ \E t \in TimeInputs, p \in PinInputs : PresetRun(t, p))
            => UNCHANGED << writes, pins, timers, presets, inPreset, mutex,
                            fpc, fgOp, message >> ]_vars

\* presetRun was called a second time while the first preset was running with
\* its Timer pending: one preset, one write, one Timer
C23_Witness ==
    /\ clicks = 2 /\ Len(presets) = 1 /\ inPreset /\ endCalls = 0 /\ ~closed
    /\ msgBox = "" /\ fpc = "idle"
    /\ Len(writes) = 1 /\ Len(timers) = 1 /\ PendingClocks = {1}

(* C24 as claimed: every string passed to msg.emit is one complete line of the *)
(* rig, ending with its line feed: the bytes read before a time-out in the     *)
(* middle of a line are not forwarded on their own.                            *)
C24_AsClaimed ==
    \A i \in DOMAIN emitted :
        emitted[i] # << >> /\ emitted[i][Len(emitted[i])] = LF

(* C25 as claimed: every line displayControl was called with has been printed  *)
(* to the monitor and log and has been parsed, whether or not a preset was     *)
(* running when it arrived.                                                    *)
C25_AsClaimed ==
    /\ Len(monitor) = Len(sink)
    /\ \A i \in DOMAIN sink :
          /\ sink[i].ok
          /\ i \in DOMAIN monitor => monitor[i] = Strip(sink[i].line, Whitespace)

============================================================================
